---- MODULE Spec2Model ----
(***************************************************************************)
(* Upload orchestration of react-file-uploaders.                           *)
(*                                                                         *)
(* Spec models DropzoneFileUploader (src/src/app/uppy/page.tsx, lines 52   *)
(* to 515) together with its hosting page (src/src/app/dropzone/page.tsx)  *)
(* and the backend exchange endpoint (src/src/app/api/upload/route.ts).    *)
(* One action is one handler or one callback of the component; React       *)
(* effects that run after the render a handler causes are part of the      *)
(* action of that handler.                                                 *)
(***************************************************************************)
EXTENDS Integers, Sequences, FiniteSets, TLC

VARIABLES
    files,            \* useState<FileWithPreview[]>: the batch
    open,             \* useState(false): the dialog
    isUploading,      \* useState(false)
    now,              \* the value Date.now() returns
    tasks,            \* the uploadFile calls made so far, one per file per start
    batches,          \* the handleUpload calls made so far (uploadedUrls, done)
    uploadedFileUrls, \* hosting page: useState<string[]>
    error,            \* hosting page: useState<string | null>
    errorLog,         \* every message passed to onError
    completeLog,      \* every list passed to onUploadComplete, in call order
    putLog,           \* tasks whose PUT request was sent
    viewOrder,        \* tasks in the order their view-URL response arrived
    added,            \* number of files accepted into the batch so far
    revoked,          \* object URLs passed to URL.revokeObjectURL
    uppy              \* UppyFileUploader: the Uppy instance, the dialog, state.current

vars == <<files, open, isUploading, now, tasks, batches, uploadedFileUrls,
          error, errorLog, completeLog, putLog, viewOrder, added, revoked,
          uppy>>

----------------------------------------------------------------------------
(* Bounds *)

MaxFiles == 2
MaxTasks == 2
MaxClock == 1
TotalBytes == 2
MaxUppyFiles == 3
MaxUppyBatches == 2

(* Program constants, in MB *)
MAX_IMAGE_SIZE == 5
MAX_VIDEO_SIZE == 50

NoError == [kind |-> "null"]
NoXhr == 0
NoPreview == 0
NoKey == ""

----------------------------------------------------------------------------
(* Candidate files offered to the dropzone: name, declared type, size in MB *)

Candidates ==
    { [name |-> "a.png", ext |-> ".png", type |-> "image/png",       size |-> 3],
      [name |-> "a.png", ext |-> ".png", type |-> "image/png",       size |-> 6],
      [name |-> "b.jpg", ext |-> ".jpg", type |-> "image/jpeg",      size |-> 3],
      [name |-> "c.mov", ext |-> ".mov", type |-> "video/quicktime", size |-> 20],
      [name |-> "c.mov", ext |-> ".mov", type |-> "video/quicktime", size |-> 60],
      [name |-> "d.pdf", ext |-> ".pdf", type |-> "application/pdf", size |-> 1],
      [name |-> "e.png", ext |-> ".png", type |-> "",                size |-> 6],
      [name |-> "e.png", ext |-> ".png", type |-> "",                size |-> 60] }

(* the files dropped in Spec: two accepted, one rejected *)
Dropped ==
    {file \in Candidates :
        file.name \in {"a.png", "c.mov"} /\ file.size \in {3, 20, 60}}

ACCEPTED_IMAGE_TYPES ==
    [type \in {"image/jpeg", "image/png", "image/webp", "image/gif"} |->
        CASE type = "image/jpeg" -> {".jpg", ".jpeg"}
          [] type = "image/png"  -> {".png"}
          [] type = "image/webp" -> {".webp"}
          [] type = "image/gif"  -> {".gif"}]

ACCEPTED_VIDEO_TYPES ==
    [type \in {"video/mp4", "video/quicktime", "video/x-msvideo", "video/webm"} |->
        CASE type = "video/mp4"       -> {".mp4"}
          [] type = "video/quicktime" -> {".mov"}
          [] type = "video/x-msvideo" -> {".avi"}
          [] type = "video/webm"      -> {".webm"}]

(* a dropzone that accepts every file *)
AcceptAnything(file) == TRUE

(* useDropzone accept: the declared type is a key, or the extension is listed *)
Accept(file) ==
    \/ file.type \in DOMAIN ACCEPTED_IMAGE_TYPES \cup DOMAIN ACCEPTED_VIDEO_TYPES
    \/ \E type \in DOMAIN ACCEPTED_IMAGE_TYPES : file.ext \in ACCEPTED_IMAGE_TYPES[type]
    \/ \E type \in DOMAIN ACCEPTED_VIDEO_TYPES : file.ext \in ACCEPTED_VIDEO_TYPES[type]

(* file.type.startsWith('image/') *)
IsImage(file) ==
    file.type \in {"image/jpeg", "image/png", "image/webp", "image/gif",
                   "image/bmp"}

(* fileType.startsWith('video/') *)
IsVideo(file) ==
    file.type \in {"video/mp4", "video/quicktime", "video/x-msvideo",
                   "video/webm"}

(* fileName.split('.').pop(): the extension of a candidate's name *)
Extension(name) == (CHOOSE file \in Candidates : file.name = name).ext

(* getFileIcon: the kind of a file by its declared type first, and by its
   extension when the type does not help *)
getFileIcon(file) ==
    IF IsImage(file) THEN "image"
    ELSE IF IsVideo(file) THEN "video"
    ELSE IF Extension(file.name) \in {".jpg", ".jpeg", ".png", ".gif", ".webp"}
        THEN "image"
    ELSE IF Extension(file.name) \in {".mp4", ".mov", ".avi", ".webm"}
        THEN "video"
    ELSE "file"

MaxSizeOf(file) == IF IsImage(file) THEN MAX_IMAGE_SIZE ELSE MAX_VIDEO_SIZE

(* useDropzone validator: a 'file-too-large' error, or none *)
Validator(file) ==
    IF file.size > MaxSizeOf(file) THEN {"file-too-large"} ELSE {}

(* the errors react-dropzone attaches to a file: accept mismatch, validator *)
RejectionErrors(file) ==
    (IF Accept(file) THEN {} ELSE {"file-invalid-type"})
    \cup Validator(file)

(* the message onDrop builds for one error of a rejected file *)
RejectionMessage(file, code) ==
    IF code = "file-too-large"
        THEN [kind |-> "too-large", name |-> file.name, limit |-> MaxSizeOf(file)]
        ELSE [kind |-> "invalid-type", name |-> file.name]

----------------------------------------------------------------------------
(* Backend exchange endpoint *)

(* POST: Key: `uploads/${Date.now()}-${filename}` *)
StorageKey(filename, clock) == "uploads/" \o ToString(clock) \o "-" \o filename

(* POST: the signed write URL of the storage key: the object's address, then
   the signature in the query.  File names are taken without characters the
   signer would escape *)
BackendPOST(filename, clock) ==
    "https://s3/" \o StorageKey(filename, clock) \o "?X-Amz-Signature=put"

(* GET: the signed read URL for a storage key *)
BackendGET(key) == "https://s3/" \o key \o "?X-Amz-Signature=get"

(* s.indexOf(sep) from position from, 1-based; 0 when sep does not occur *)
RECURSIVE IndexOf(_, _, _)
IndexOf(s, sep, from) ==
    IF from + Len(sep) - 1 > Len(s) THEN 0
    ELSE IF SubSeq(s, from, from + Len(sep) - 1) = sep THEN from
    ELSE IndexOf(s, sep, from + 1)

(* s.split(sep)[0] *)
SplitFirst(s, sep) ==
    LET i == IndexOf(s, sep, 1)
    IN IF i = 0 THEN s ELSE SubSeq(s, 1, i - 1)

(* `${s.split(sep)[1]}`: the piece between the first and the second sep *)
SplitSecond(s, sep) ==
    LET i == IndexOf(s, sep, 1)
    IN IF i = 0 THEN "undefined"
       ELSE LET j == IndexOf(s, sep, i + Len(sep))
            IN IF j = 0 THEN SubSeq(s, i + Len(sep), Len(s))
                        ELSE SubSeq(s, i + Len(sep), j - 1)

(* uploadURL.split('?')[0].split('/uploads/')[1], sent as uploads/${key} *)
KeyFromUploadURL(uploadURL) ==
    "uploads/" \o SplitSecond(SplitFirst(uploadURL, "?"), "/uploads/")

----------------------------------------------------------------------------
(* Helpers on the batch *)

(* { ...f, fields } *)
Spread(f, fields) ==
    [k \in DOMAIN f |-> IF k \in DOMAIN fields THEN fields[k] ELSE f[k]]

(* an update that is not keyed by identifier: prev.map(f => ({ ...f, fields })) *)
MapEveryFile(fs, id, fields) ==
    [i \in DOMAIN fs |-> Spread(fs[i], fields)]

(* prev.map(f => f.id === id ? { ...f, fields } : f) *)
MapFiles(fs, id, fields) ==
    [i \in DOMAIN fs |-> IF fs[i].id = id THEN Spread(fs[i], fields) ELSE fs[i]]

PreviewsOf(fs) ==
    {fs[i].preview : i \in {j \in DOMAIN fs : fs[j].preview # NoPreview}}

(* cleanup of the effect on [files]: runs whenever files is replaced *)
CleanupEffect(old) == PreviewsOf(old)

(* an effect on [open, files] that keeps the batch when the dialog is closed *)
CloseEffectKeepsFiles(isOpen, fs) == fs

(* effect on [open, files]: clear the batch when the dialog is closed *)
CloseEffectFiles(isOpen, fs) == IF ~isOpen /\ fs # <<>> THEN <<>> ELSE fs

CloseEffectRevoked(isOpen, fs) ==
    IF ~isOpen /\ fs # <<>> THEN PreviewsOf(fs) ELSE {}

(* UppyFileUploader: INITIAL_STATE of the state ref; currentBatchUrls is a
   Map, kept as the sequence of its [id, url] entries in insertion order *)
INITIAL_STATE ==
    [ urls |-> <<>>, pending |-> {}, isUploading |-> FALSE,
      currentBatchUrls |-> <<>> ]

(* the ids of the files given to Uppy *)
UppyIds == 1..MaxUppyFiles

(* UppyFileUploader after its mount effect: the dialog closed, no file in
   Uppy, no upload made *)
UppyInitial ==
    [ open    |-> FALSE,
      files   |-> [id \in UppyIds |->
                      [status |-> "none", upload |-> 0, view |-> "none"]],
      state   |-> INITIAL_STATE,
      uploads |-> <<>>,
      results |-> <<>>,
      errors  |-> {} ]

Init ==
    /\ files = <<>>
    /\ open = FALSE
    /\ isUploading = FALSE
    /\ now = 0
    /\ tasks = <<>>
    /\ batches = <<>>
    /\ uploadedFileUrls = <<>>
    /\ error = NoError
    /\ errorLog = {}
    /\ completeLog = <<>>
    /\ putLog = {}
    /\ viewOrder = <<>>
    /\ added = 0
    /\ revoked = {}
    /\ uppy = UppyInitial

(* the clock advances *)
Tick ==
    /\ now < MaxClock
    /\ now' = now + 1
    /\ UNCHANGED <<uppy, files, open, isUploading, tasks, batches,
                   uploadedFileUrls,
                   error, errorLog, completeLog, putLog, viewOrder, added,
                   revoked>>

(* DialogTrigger: the user opens the upload surface *)
OpenDialog ==
    /\ ~open
    /\ open' = TRUE
    /\ UNCHANGED <<uppy, files, isUploading, now, tasks, batches,
                   uploadedFileUrls,
                   error, errorLog, completeLog, putLog, viewOrder, added,
                   revoked>>

(* Dialog onOpenChange(false): the user closes the upload surface *)
CloseDialog ==
    /\ open
    /\ open' = FALSE
    /\ files' = CloseEffectFiles(FALSE, files)
    /\ revoked' = revoked \cup CloseEffectRevoked(FALSE, files)
                          \cup (IF files # <<>> THEN CleanupEffect(files) ELSE {})
    /\ UNCHANGED <<uppy, isUploading, now, tasks, batches, uploadedFileUrls,
                   error,
                   errorLog, completeLog, putLog, viewOrder, added>>

(* the FileWithPreview onDrop builds for an accepted file; handle is the
   reference of the dropped File object, and names its object URL too *)
NewFile(file, handle, clock) ==
    [ id             |-> <<file.name, clock>>,
      name           |-> file.name,
      type           |-> file.type,
      size           |-> file.size,
      preview        |-> IF IsImage(file) THEN handle ELSE NoPreview,
      uploadProgress |-> 0,
      status         |-> "pending",
      errorMessage   |-> "",
      originalFile   |-> handle,
      xhr            |-> NoXhr ]

(* onDrop for one dropped file, after react-dropzone has sorted it into
   acceptedFiles or fileRejections *)
OnDrop(file) ==
    /\ open
    /\ IF RejectionErrors(file) # {}
       THEN /\ errorLog' = errorLog \cup
                   {RejectionMessage(file, code) : code \in RejectionErrors(file)}
            /\ error' = IF "file-too-large" \in RejectionErrors(file)
                           THEN RejectionMessage(file, "file-too-large")
                           ELSE RejectionMessage(file, "file-invalid-type")
            /\ UNCHANGED <<files, added, revoked>>
       ELSE IF file.size > MaxSizeOf(file)
       THEN /\ errorLog' = errorLog \cup
                   {[kind |-> "exceeds", name |-> file.name,
                     limit |-> MaxSizeOf(file)]}
            /\ error' = [kind |-> "exceeds", name |-> file.name,
                         limit |-> MaxSizeOf(file)]
            /\ UNCHANGED <<files, added, revoked>>
       ELSE /\ added < MaxFiles
            /\ added' = added + 1
            /\ files' = Append(files, NewFile(file, added + 1, now))
            /\ revoked' = revoked \cup CleanupEffect(files)
            /\ UNCHANGED <<error, errorLog>>
    /\ UNCHANGED <<uppy, open, isUploading, now, tasks, batches,
                   uploadedFileUrls,
                   completeLog, putLog, viewOrder>>

----------------------------------------------------------------------------
(* Upload tasks.  pc of a task:
     "post"       awaiting the response of the upload-target request
     "put"        the XMLHttpRequest is sent and neither loaded, failed nor aborted
     "view"       awaiting the response of the view-URL request
     "resolved"   uploadFile's promise resolved with the view URL
     "failedPost" uploadFile threw: the upload-target exchange failed
     "failedPut"  uploadFile's promise rejected: the transfer failed
     "hungView"   the view-URL exchange failed: xhr.onload threw, the promise
                  is never settled
     "aborted"    xhr.abort() was called: neither onload nor onerror fires, the
                  promise is never settled                                      *)

Settled == {"resolved", "failedPost", "failedPut"}
InFlight == {"post", "put", "view"}

NewTask(b, f) ==
    [ batch |-> b, id |-> f.id, name |-> f.name,
      originalFile |-> f.originalFile, pc |-> "post",
      uploadURL |-> NoKey, sent |-> 0, cancelled |-> FALSE ]

IsPending(f) == f.status = "pending"

(* the disabled attribute of the Upload Files button *)
UploadDisabled ==
    isUploading \/ \A i \in DOMAIN files : files[i].status = "success"

(* every promise handed to Promise.all by handleUpload call b is settled *)
BatchSettled(ts, b) ==
    \A t \in DOMAIN ts : ts[t].batch = b => ts[t].pc \in Settled

(* handleUpload up to its await: the button's onClick.  With no pending file
   Promise.all([]) resolves at once, uploadedUrls is empty and the finally
   resets the flag: the call leaves every state variable as it was *)
HandleUpload ==
    /\ open
    /\ ~UploadDisabled
    /\ files # <<>>
    /\ Len(tasks) + Len(SelectSeq(files, IsPending)) <= MaxTasks
    /\ LET pendingFiles == SelectSeq(files, IsPending)
           b == Len(batches) + 1
       IN IF pendingFiles = <<>>
          THEN UNCHANGED <<tasks, batches, isUploading>>
          ELSE /\ tasks' = tasks \o [k \in DOMAIN pendingFiles |->
                                        NewTask(b, pendingFiles[k])]
               /\ batches' = Append(batches,
                      [uploadedUrls |-> <<>>, done |-> FALSE])
               /\ isUploading' = TRUE
    /\ UNCHANGED <<uppy, files, open, now, uploadedFileUrls, error, errorLog,
                   completeLog, putLog, viewOrder, added, revoked>>

(* handleUpload with a fail-fast join: nothing is reported for a batch in
   which an upload failed *)
ContinueFailFast(t, newPc, fs, urls, err) ==
    LET ts == [tasks EXCEPT ![t].pc = newPc]
        b == tasks[t].batch
        done == BatchSettled(ts, b)
        emit == /\ done
                /\ urls # <<>>
                /\ \A u \in DOMAIN ts :
                       ts[u].batch = b => ts[u].pc \notin {"failedPost", "failedPut"}
        isOpen == IF emit THEN FALSE ELSE open
    IN /\ tasks' = ts
       /\ batches' = [batches EXCEPT ![b] = [uploadedUrls |-> urls, done |-> done]]
       /\ completeLog' = IF emit THEN Append(completeLog, urls) ELSE completeLog
       /\ uploadedFileUrls' =
              IF emit THEN uploadedFileUrls \o urls ELSE uploadedFileUrls
       /\ error' = IF emit THEN NoError ELSE err
       /\ open' = isOpen
       /\ isUploading' = IF done THEN FALSE ELSE isUploading
       /\ files' = CloseEffectFiles(isOpen, fs)
       /\ revoked' = revoked \cup CleanupEffect(files)
                             \cup CloseEffectRevoked(isOpen, fs)

(* the rest of handleUpload once task t has settled with pc newPc, the batch
   being fs, the urls of its call urls and the page's error err: the code
   after Promise.all when t was the last one, and the effects of the render *)
Continue(t, newPc, fs, urls, err) ==
    LET ts == [tasks EXCEPT ![t].pc = newPc]
        b == tasks[t].batch
        done == BatchSettled(ts, b)
        emit == done /\ urls # <<>>
        isOpen == IF emit THEN FALSE ELSE open
    IN /\ tasks' = ts
       /\ batches' = [batches EXCEPT ![b] = [uploadedUrls |-> urls, done |-> done]]
       /\ completeLog' = IF emit THEN Append(completeLog, urls) ELSE completeLog
       /\ uploadedFileUrls' =
              IF emit THEN uploadedFileUrls \o urls ELSE uploadedFileUrls
       /\ error' = IF emit THEN NoError ELSE err
       /\ open' = isOpen
       /\ isUploading' = IF done THEN FALSE ELSE isUploading
       /\ files' = CloseEffectFiles(isOpen, fs)
       /\ revoked' = revoked \cup CleanupEffect(files)
                             \cup CloseEffectRevoked(isOpen, fs)

SetError == [status |-> "error", errorMessage |-> "Upload failed"]
SetSuccess == [status |-> "success"]

(* the catch of handleUpload for task t *)
Catch(t, newPc) ==
    /\ errorLog' = errorLog \cup {[kind |-> "failed", name |-> tasks[t].name]}
    /\ Continue(t, newPc, MapFiles(files, tasks[t].id, SetError),
                batches[tasks[t].batch].uploadedUrls,
                [kind |-> "failed", name |-> tasks[t].name])

(* uploadFile: the upload-target response is ok; the PUT is sent *)
PostOk(t) ==
    /\ tasks[t].pc = "post"
    /\ files' = MapFiles(files, tasks[t].id, [xhr |-> t])
    /\ tasks' = [tasks EXCEPT ![t].pc = "put",
                              ![t].uploadURL = BackendPOST(tasks[t].name, now)]
    /\ putLog' = putLog \cup {t}
    /\ revoked' = revoked \cup CleanupEffect(files)
    /\ UNCHANGED <<uppy, open, isUploading, now, batches, uploadedFileUrls,
                   error,
                   errorLog, completeLog, viewOrder, added>>

(* uploadFile: the upload-target response is not ok, or fetch rejected *)
PostFail(t) ==
    /\ tasks[t].pc = "post"
    /\ Catch(t, "failedPost")
    /\ UNCHANGED <<uppy, now, putLog, viewOrder, added>>

(* xhr.upload.onprogress: the transport reports loaded of TotalBytes sent *)
OnProgress(t, lengthComputable, loaded) ==
    /\ tasks[t].pc = "put"
    /\ loaded > tasks[t].sent
    /\ IF lengthComputable
       THEN LET progress == (loaded * 100) \div TotalBytes
            IN /\ files' = MapFiles(files, tasks[t].id,
                      [uploadProgress |-> progress, status |-> "uploading"])
               /\ revoked' = revoked \cup CleanupEffect(files)
               /\ tasks' = [tasks EXCEPT ![t].sent = loaded]
       ELSE UNCHANGED <<files, revoked, tasks>>
    /\ UNCHANGED <<uppy, open, isUploading, now, batches, uploadedFileUrls,
                   error,
                   errorLog, completeLog, putLog, viewOrder, added>>

(* xhr.onload with status 200: the view-URL request is sent *)
PutOk(t) ==
    /\ tasks[t].pc = "put"
    /\ tasks' = [tasks EXCEPT ![t].pc = "view"]
    /\ UNCHANGED <<uppy, files, open, isUploading, now, batches,
                   uploadedFileUrls,
                   error, errorLog, completeLog, putLog, viewOrder, added,
                   revoked>>

(* xhr.onload with another status, or xhr.onerror: reject *)
PutFail(t) ==
    /\ tasks[t].pc = "put"
    /\ Catch(t, "failedPut")
    /\ UNCHANGED <<uppy, now, putLog, viewOrder, added>>

(* uploadFile results collected in submission order, as the values of
   Promise.all would be *)
ViewOkInSubmissionOrder(t) ==
    /\ tasks[t].pc = "view"
    /\ LET b == tasks[t].batch
           resolved == {u \in DOMAIN tasks :
                           tasks[u].batch = b /\ (u = t \/ tasks[u].pc = "resolved")}
           InOrder(u) == u \in resolved
           order == SelectSeq([u \in DOMAIN tasks |-> u], InOrder)
           urls == [k \in DOMAIN order |->
                       BackendGET(KeyFromUploadURL(tasks[order[k]].uploadURL))]
       IN Continue(t, "resolved", MapFiles(files, tasks[t].id, SetSuccess),
                   urls, error)
    /\ viewOrder' = Append(viewOrder, t)
    /\ UNCHANGED <<uppy, now, errorLog, putLog, added>>

(* xhr.onload: the view-URL response is ok; resolve(url), then the
   continuation of handleUpload's map callback *)
ViewOk(t) ==
    /\ tasks[t].pc = "view"
    /\ LET url == BackendGET(KeyFromUploadURL(tasks[t].uploadURL))
       IN Continue(t, "resolved", MapFiles(files, tasks[t].id, SetSuccess),
                   Append(batches[tasks[t].batch].uploadedUrls, url), error)
    /\ viewOrder' = Append(viewOrder, t)
    /\ UNCHANGED <<uppy, now, errorLog, putLog, added>>

(* xhr.onload: the view-URL response is not ok, or fetch rejected: the async
   handler throws, and neither resolve nor reject is called *)
ViewFail(t) ==
    /\ tasks[t].pc = "view"
    /\ tasks' = [tasks EXCEPT ![t].pc = "hungView"]
    /\ UNCHANGED <<uppy, files, open, isUploading, now, batches,
                   uploadedFileUrls,
                   error, errorLog, completeLog, putLog, viewOrder, added,
                   revoked>>

(* removeFile(files[i].id): the X button of the i-th row *)
RemoveFile(i) ==
    /\ open
    /\ i \in DOMAIN files
    /\ LET fileId == files[i].id
           first == CHOOSE j \in DOMAIN files :
                        /\ files[j].id = fileId
                        /\ \A k \in DOMAIN files : files[k].id = fileId => j <= k
           fileToRemove == files[first]
           abort == fileToRemove.xhr # NoXhr /\ fileToRemove.status = "uploading"
           Keep(f) == f.id # fileId
           filtered == SelectSeq(files, Keep)
           hasUploadingFiles ==
               \E k \in DOMAIN filtered : filtered[k].status = "uploading"
       IN /\ tasks' = [t \in DOMAIN tasks |->
                 [tasks[t] EXCEPT
                    !.pc = IF abort /\ t = fileToRemove.xhr /\ @ = "put"
                              THEN "aborted" ELSE @,
                    !.cancelled = @ \/ (tasks[t].id = fileId
                                        /\ tasks[t].pc \in InFlight)]]
          /\ files' = filtered
          /\ revoked' = revoked \cup CleanupEffect(files)
                 \cup (IF fileToRemove.preview # NoPreview
                          THEN {fileToRemove.preview} ELSE {})
          /\ isUploading' = IF hasUploadingFiles THEN isUploading ELSE FALSE
    /\ UNCHANGED <<uppy, open, now, batches, uploadedFileUrls, error, errorLog,
                   completeLog, putLog, viewOrder, added>>

Next ==
    \/ Tick
    \/ OpenDialog
    \/ CloseDialog
    \/ \E file \in Dropped : OnDrop(file)
    \/ HandleUpload
    \/ \E i \in 1..MaxFiles : RemoveFile(i)
    \/ \E t \in DOMAIN tasks : PostOk(t)
    \/ \E t \in DOMAIN tasks : PostFail(t)
    \/ \E t \in DOMAIN tasks, lc \in BOOLEAN, loaded \in 1..TotalBytes :
           OnProgress(t, lc, loaded)
    \/ \E t \in DOMAIN tasks : PutOk(t)
    \/ \E t \in DOMAIN tasks : PutFail(t)
    \/ \E t \in DOMAIN tasks : ViewOk(t)
    \/ \E t \in DOMAIN tasks : ViewFail(t)

Spec == Init /\ [][Next]_vars

(* files whose names put the key derivation to the test *)
KeyCandidates ==
    { [name |-> "a.png",           ext |-> ".png", type |-> "image/png", size |-> 3],
      [name |-> "uploads.png",     ext |-> ".png", type |-> "image/png", size |-> 3],
      [name |-> "x/uploads/y.png", ext |-> ".png", type |-> "image/png", size |-> 3] }

(* uploads of such files that all go well *)
NextKey ==
    \/ Tick
    \/ OpenDialog
    \/ \E file \in KeyCandidates : OnDrop(file)
    \/ HandleUpload
    \/ \E t \in DOMAIN tasks : PostOk(t)
    \/ \E t \in DOMAIN tasks : PutOk(t)
    \/ \E t \in DOMAIN tasks : ViewOk(t)

SpecKey == Init /\ [][NextKey]_vars

(* the dropzone offered every candidate file within one clock value, the
   uploads going as far as the answer of the upload-target request *)
NextDrop ==
    \/ OpenDialog
    \/ CloseDialog
    \/ \E file \in Candidates : OnDrop(file)
    \/ HandleUpload
    \/ \E i \in 1..MaxFiles : RemoveFile(i)
    \/ \E t \in DOMAIN tasks : PostOk(t)
    \/ \E t \in DOMAIN tasks : PostFail(t)

SpecDrop == Init /\ [][NextDrop]_vars

----------------------------------------------------------------------------
(* UppyFileUploader.  Each file of uppy.files has
     status  "none" (not added), "added", "uploading", "success" (transferred),
             "error" (upload-target request or transfer failed)
     upload  the number of the uppy.upload() call that took it, 0 before
     view    "none", "outstanding", "resolved" or "failed": the view-URL
             exchange of the upload-success handler
   uppy.uploads[b] tells whether 'complete' was emitted for upload b and
   whether a checkCompletion timer of it is armed; uppy.results lists the
   calls of onUploadComplete, with the upload whose checkCompletion made the
   call, whether that run of checkCompletion came from the timer, and the
   view-URL exchanges of that upload at the time of the call *)

dropzoneVars ==
    <<files, open, isUploading, now, tasks, batches, uploadedFileUrls, error,
      errorLog, completeLog, putLog, viewOrder, added, revoked>>

(* the view URL the backend returns for the object of file id *)
UppyViewUrl(id) == BackendGET("uploads/" \o ToString(id))

UppyOpenDialog ==
    /\ ~uppy.open
    /\ uppy' = [uppy EXCEPT !.open = TRUE]
    /\ UNCHANGED dropzoneVars

(* Dialog onOpenChange(false): setOpen, nothing is cancelled *)
UppyCloseDialog ==
    /\ uppy.open
    /\ uppy' = [uppy EXCEPT !.open = FALSE]
    /\ UNCHANGED dropzoneVars

(* Dashboard: the user adds a file *)
UppyAddFile(id) ==
    /\ uppy.open
    /\ uppy.files[id].status = "none"
    /\ uppy' = [uppy EXCEPT !.files[id].status = "added"]
    /\ UNCHANGED dropzoneVars

(* Dashboard upload button, allowMultipleUploadBatches: the files added and
   not yet taken form a new upload; handler of 'upload' *)
UppyOnUpload ==
    /\ uppy.open
    /\ \E id \in UppyIds : uppy.files[id].status = "added"
    /\ Len(uppy.uploads) < MaxUppyBatches
    /\ LET b == Len(uppy.uploads) + 1
       IN uppy' = [uppy EXCEPT
              !.files = [id \in UppyIds |->
                            IF @[id].status = "added"
                               THEN [@[id] EXCEPT !.status = "uploading",
                                                  !.upload = b]
                               ELSE @[id]],
              !.uploads = Append(@, [completed |-> FALSE, polling |-> FALSE]),
              !.state = [@ EXCEPT !.pending = {}, !.isUploading = TRUE,
                                  !.currentBatchUrls = <<>>]]
    /\ UNCHANGED dropzoneVars

(* handler of 'upload-success' up to its await: the view-URL request is sent *)
UppyOnUploadSuccess(id) ==
    /\ uppy.files[id].status = "uploading"
    /\ uppy' = [uppy EXCEPT !.files[id].status = "success",
                            !.files[id].view = "outstanding",
                            !.state.pending = @ \cup {id}]
    /\ UNCHANGED dropzoneVars

(* handler of 'upload-error' *)
UppyOnUploadError(id) ==
    /\ uppy.files[id].status = "uploading"
    /\ uppy' = [uppy EXCEPT !.files[id].status = "error",
                            !.state.pending = @ \ {id},
                            !.errors = @ \cup {[kind |-> "upload-failed",
                                                id |-> id]}]
    /\ UNCHANGED dropzoneVars

(* handler of 'upload-success' after its await: the view-URL response is ok *)
UppyViewOk(id) ==
    /\ uppy.files[id].view = "outstanding"
    /\ uppy' = [uppy EXCEPT
           !.files[id].view = "resolved",
           !.state.urls = Append(@, UppyViewUrl(id)),
           !.state.currentBatchUrls =
               Append(@, [id |-> id, url |-> UppyViewUrl(id)]),
           !.state.pending = @ \ {id}]
    /\ UNCHANGED dropzoneVars

(* handler of 'upload-success', catch: the view-URL exchange failed *)
UppyViewFail(id) ==
    /\ uppy.files[id].view = "outstanding"
    /\ uppy' = [uppy EXCEPT !.files[id].view = "failed",
                            !.state.pending = @ \ {id},
                            !.errors = @ \cup {[kind |-> "view-failed",
                                                id |-> id]}]
    /\ UNCHANGED dropzoneVars

(* checkCompletion of the 'complete' handler of upload b, on Uppy state u;
   timer tells a run started by setTimeout from the first run *)
checkCompletion(u, b, timer) ==
    IF u.state.pending = {}
    THEN LET urls == [k \in DOMAIN u.state.currentBatchUrls |->
                         u.state.currentBatchUrls[k].url]
             own == {id \in UppyIds : u.files[id].upload = b}
         IN IF urls # <<>>
            THEN [u EXCEPT
                     !.results = Append(@,
                         [ by          |-> b,
                           timer       |-> timer,
                           urls        |-> urls,
                           outstanding |-> {id \in own :
                                               u.files[id].view = "outstanding"},
                           resolved    |-> {id \in own :
                                               u.files[id].view = "resolved"} ]),
                     !.state.isUploading = FALSE,
                     !.open = FALSE,
                     !.uploads[b].polling = FALSE]
            ELSE [u EXCEPT !.uploads[b].polling = FALSE]
    ELSE [u EXCEPT !.uploads[b].polling = TRUE]

(* handler of 'complete': every file of upload b has succeeded or failed *)
UppyOnComplete(b) ==
    /\ ~uppy.uploads[b].completed
    /\ \A id \in UppyIds :
           uppy.files[id].upload = b => uppy.files[id].status \in {"success", "error"}
    /\ LET failed == {id \in UppyIds : /\ uppy.files[id].upload = b
                                       /\ uppy.files[id].status = "error"}
           u == [uppy EXCEPT
                    !.uploads[b].completed = TRUE,
                    !.errors = IF failed # {}
                                  THEN @ \cup {[kind |-> "aggregate",
                                                count |-> Cardinality(failed),
                                                ids |-> failed]}
                                  ELSE @]
       IN uppy' = checkCompletion(u, b, FALSE)
    /\ UNCHANGED dropzoneVars

(* setTimeout(checkCompletion, 100) of upload b fires *)
UppyTimeout(b) ==
    /\ uppy.uploads[b].polling
    /\ uppy' = checkCompletion(uppy, b, TRUE)
    /\ UNCHANGED dropzoneVars

NextUppy ==
    \/ UppyOpenDialog
    \/ UppyCloseDialog
    \/ \E id \in UppyIds : UppyAddFile(id)
    \/ UppyOnUpload
    \/ \E id \in UppyIds : UppyOnUploadSuccess(id)
    \/ \E id \in UppyIds : UppyOnUploadError(id)
    \/ \E id \in UppyIds : UppyViewOk(id)
    \/ \E id \in UppyIds : UppyViewFail(id)
    \/ \E b \in DOMAIN uppy.uploads : UppyOnComplete(b)
    \/ \E b \in DOMAIN uppy.uploads : UppyTimeout(b)

SpecUppy == Init /\ [][NextUppy]_vars

----------------------------------------------------------------------------
(* Vocabulary of the properties *)

TasksOf(b) == {t \in DOMAIN tasks : tasks[t].batch = b}

(* the view URL task t resolves with *)
UrlOf(t) == BackendGET(KeyFromUploadURL(tasks[t].uploadURL))

(* the row of the batch that holds the file task t uploads, if still there *)
RowsOf(t) ==
    {i \in DOMAIN files : files[i].originalFile = tasks[t].originalFile}

Failed(t) == tasks[t].pc \in {"failedPost", "failedPut"}

Emitted(urls) == \E k \in DOMAIN completeLog : completeLog[k] = urls

Range(seq) == {seq[k] : k \in DOMAIN seq}

----------------------------------------------------------------------------
(* C1: a file whose byte transfer succeeded and whose view-URL exchange then
   failed ends in status 'error' (and never in 'success', with no URL of it in
   an Upload Result).  Stated on the upload whose view-URL exchange has
   failed: the row of its file, while in the batch, has status 'error'. *)
C1_ViewFailureEndsInError ==
    \A t \in DOMAIN tasks :
        tasks[t].pc = "hungView" =>
            /\ \A i \in RowsOf(t) : files[i].status = "error"
            /\ \A k \in DOMAIN completeLog : UrlOf(t) \notin Range(completeLog[k])

(* C2: cancelled files do not block batch completion.  Stated on a batch of
   files with distinct identifiers in which nothing is outstanding any more:
   every upload has either settled or belongs to a cancelled file and has
   stopped.  Then the Upload Result of the files that succeeded has been
   emitted, and the uploading flag is set only on behalf of another batch. *)
C2_CancelledDoNotBlockCompletion ==
    \A b \in DOMAIN batches :
        ( /\ \A t \in TasksOf(b) : tasks[t].pc \notin InFlight
          /\ \A t \in TasksOf(b) : tasks[t].pc \in Settled \/ tasks[t].cancelled
          /\ \E t \in TasksOf(b) : tasks[t].cancelled
          /\ \A t, u \in DOMAIN tasks : tasks[t].id = tasks[u].id => t = u )
        => /\ batches[b].uploadedUrls # <<>> => Emitted(batches[b].uploadedUrls)
           /\ isUploading =>
                  \E t \in DOMAIN tasks :
                      tasks[t].batch # b /\ tasks[t].pc \in InFlight

(* C3: a file cancelled after batch start and before its outcome is out of the
   batch, and from then on no Upload Result carries its URL and no failure
   notice names it. *)
C3_CancelledNeverReported ==
    \A t \in DOMAIN tasks :
        tasks[t].cancelled =>
            /\ ~Failed(t)
            /\ ~(tasks[t].pc = "resolved" /\ batches[tasks[t].batch].done)

(* C4: the batch-start intent moves the pending files to 'uploading': once
   the start has been processed, no file of the batch whose upload is still
   outstanding (and that was not cancelled) is 'pending'. *)
C4_StartMovesPendingToUploading ==
    \A t \in DOMAIN tasks :
        (tasks[t].pc \in InFlight /\ ~tasks[t].cancelled) =>
            \A i \in RowsOf(t) : files[i].status = "uploading"

(* C5: the Upload Result of a completed batch holds the view URLs of exactly
   the files that ended in 'success': the uploads of the batch that resolved
   and whose file was not cancelled. *)
C5_ResultIsExactlyTheSuccesses ==
    \A b \in DOMAIN batches :
        (batches[b].done /\ batches[b].uploadedUrls # <<>>) =>
            Range(batches[b].uploadedUrls) =
                {UrlOf(t) : t \in {u \in TasksOf(b) :
                                      /\ tasks[u].pc = "resolved"
                                      /\ ~tasks[u].cancelled}}

(* C6, as claimed: a batch that completes with a file in 'error' has emitted
   an aggregate failure notice carrying the count and the filenames of the
   failed files. *)
C6_AggregateNoticeEmitted ==
    \A b \in DOMAIN batches :
        (batches[b].done /\ \E t \in TasksOf(b) : Failed(t)) =>
            \E m \in errorLog :
                /\ m.kind = "aggregate"
                /\ m.count = Cardinality({t \in TasksOf(b) : Failed(t)})
                /\ m.names = {tasks[t].name : t \in {u \in TasksOf(b) : Failed(u)}}

(* C6, amended: a batch that completes with a file in 'error' has emitted one
   failure notice 'Failed to upload <filename>' for each failed file, and it
   has also emitted the Upload Result of the files that succeeded. *)
C6_PerFileNoticesAndPartialResult ==
    \A b \in DOMAIN batches :
        (batches[b].done /\ \E t \in TasksOf(b) : Failed(t)) =>
            /\ \A t \in TasksOf(b) :
                   Failed(t) => [kind |-> "failed", name |-> tasks[t].name] \in errorLog
            /\ \A t \in TasksOf(b) :
                   tasks[t].pc = "resolved" =>
                       \E k \in DOMAIN completeLog :
                           /\ completeLog[k] = batches[b].uploadedUrls
                           /\ UrlOf(t) \in Range(completeLog[k])

(* a batch has completed with one file failed and another one succeeded *)
C6_Witness ==
    \E b \in DOMAIN batches :
        /\ batches[b].done
        /\ \E t \in TasksOf(b) : Failed(t)
        /\ \E t \in TasksOf(b) : tasks[t].pc = "resolved"
        /\ Emitted(batches[b].uploadedUrls)

(* C7: a file's final status depends only on the results of its own exchanges
   and transfer.  Stated on the files started once and not cancelled: when
   the upload has resolved the row of the file is 'success', when it has
   failed the row is 'error', whatever the other uploads did. *)
C7_OwnResultsDecideStatus ==
    \A t \in DOMAIN tasks :
        ( /\ ~tasks[t].cancelled
          /\ \A u \in DOMAIN tasks :
                 tasks[u].originalFile = tasks[t].originalFile => u = t )
        => \A i \in RowsOf(t) :
               /\ tasks[t].pc = "resolved" => files[i].status = "success"
               /\ Failed(t) => files[i].status = "error"

(* the view URLs of batch b in the order their view-URL responses arrived *)
UrlsInViewOrder(b) ==
    LET InB(t) == tasks[t].batch = b
        order == SelectSeq(viewOrder, InB)
    IN [k \in DOMAIN order |-> UrlOf(order[k])]

(* C8: the URLs collected for a batch, and the Upload Result emitted for it,
   are ordered by the order in which the view-URL resolutions completed. *)
C8_ResultInResolutionOrder ==
    \A b \in DOMAIN batches :
        /\ batches[b].uploadedUrls = UrlsInViewOrder(b)
        /\ (batches[b].done /\ UrlsInViewOrder(b) # <<>>) =>
               Emitted(UrlsInViewOrder(b))

(* an Upload Result was emitted whose order is the reverse of the submission
   order: the file submitted second resolved first *)
C8_Witness ==
    \E t1, t2 \in DOMAIN tasks :
        /\ t1 < t2
        /\ tasks[t1].batch = tasks[t2].batch
        /\ tasks[t1].pc = "resolved" /\ tasks[t2].pc = "resolved"
        /\ UrlOf(t1) # UrlOf(t2)
        /\ Emitted(<<UrlOf(t2), UrlOf(t1)>>)

(* C9: once the upload surface is closed no byte transfer it started is still
   running. *)
C9_NoTransferOutlivesSurface ==
    ~open => \A t \in DOMAIN tasks : tasks[t].pc # "put"

(* C10: a file whose upload-target exchange failed ends in 'error' with a
   failure message, and no PUT is ever sent for that file.  Stated on the
   upload whose upload-target exchange has failed, its file not cancelled. *)
C10_TargetFailureEndsInError ==
    \A t \in DOMAIN tasks :
        (tasks[t].pc = "failedPost" /\ ~tasks[t].cancelled) =>
            /\ \A u \in DOMAIN tasks :
                   tasks[u].originalFile = tasks[t].originalFile => u \notin putLog
            /\ \A i \in RowsOf(t) :
                   /\ files[i].status = "error"
                   /\ files[i].errorMessage # ""

(* the uploads started so far carry identifiers that tell their files apart *)
IdsIdentifyFiles ==
    \A t, u \in DOMAIN tasks :
        tasks[t].id = tasks[u].id => tasks[t].originalFile = tasks[u].originalFile

(* C11: when every file of a started batch has failed, no Upload Result holds
   a URL of the batch, a notice 'Failed to upload <filename>' was emitted for
   each failed file, and each failed file that was not removed is in the
   batch with status 'error'.  Stated on uploads whose identifiers tell their
   files apart. *)
C11_AllFailedBatch ==
    \A b \in DOMAIN batches :
        (batches[b].done /\ IdsIdentifyFiles /\ \A t \in TasksOf(b) : Failed(t)) =>
            /\ \A t \in TasksOf(b), k \in DOMAIN completeLog :
                   tasks[t].uploadURL # NoKey =>
                       UrlOf(t) \notin Range(completeLog[k])
            /\ \A t \in TasksOf(b) :
                   [kind |-> "failed", name |-> tasks[t].name] \in errorLog
            /\ \A t \in TasksOf(b) :
                   ~tasks[t].cancelled =>
                       \A i \in RowsOf(t) : files[i].status = "error"

(* C12: when a batch completes with at least one successful file,
   onUploadComplete is called exactly once with the non-empty list of URLs,
   the upload surface closes, the batch is cleared to empty, and the hosting
   page appends those URLs to the URLs of earlier batches: every call of
   onUploadComplete is made by a batch that completes in that step, and the
   page's list only grows. *)
C12_CompletionWithSuccess ==
    [][ /\ \A b \in DOMAIN batches :
               ( /\ ~batches[b].done
                 /\ batches'[b].done
                 /\ batches'[b].uploadedUrls # <<>> )
               => /\ completeLog' = Append(completeLog, batches'[b].uploadedUrls)
                  /\ ~open'
                  /\ files' = <<>>
                  /\ uploadedFileUrls' =
                         uploadedFileUrls \o batches'[b].uploadedUrls
        /\ completeLog' # completeLog =>
               \E b \in DOMAIN batches :
                   /\ ~batches[b].done
                   /\ batches'[b].done
                   /\ batches'[b].uploadedUrls # <<>>
        /\ Len(uploadedFileUrls') >= Len(uploadedFileUrls)
        /\ SubSeq(uploadedFileUrls', 1, Len(uploadedFileUrls)) = uploadedFileUrls
      ]_vars

(* two batches have completed with a successful file each: the surface is
   closed, the batch is empty and the page lists the URLs of the first batch
   followed by those of the second *)
C12_Witness ==
    /\ Len(completeLog) = 2
    /\ Len(batches) = 2
    /\ \A b \in DOMAIN batches : batches[b].done /\ batches[b].uploadedUrls # <<>>
    /\ uploadedFileUrls = completeLog[1] \o completeLog[2]
    /\ ~open
    /\ files = <<>>

(* C13: the progress values recorded for a single file during a transfer are
   non-decreasing: no step lowers the progress of a file that is 'uploading'
   before and after it.  Stated on uploads whose identifiers tell their files
   apart, the transport reporting growing byte counts. *)
C13_ProgressNonDecreasing ==
    [][ IdsIdentifyFiles =>
            \A i \in DOMAIN files, j \in DOMAIN files' :
                ( /\ files[i].originalFile = files'[j].originalFile
                  /\ files[i].status = "uploading"
                  /\ files'[j].status = "uploading" )
                => files'[j].uploadProgress >= files[i].uploadProgress
      ]_vars

(* the size limit of the class of a file, the class taken from the declared
   type and else from the extension *)
ClassLimit(file) ==
    IF getFileIcon(file) = "image" THEN MAX_IMAGE_SIZE ELSE MAX_VIDEO_SIZE

(* C14: every file whose size exceeds the limit of its class (image 5MB,
   video 50MB) is rejected and never enters the batch, and a size rejection
   quotes the limit of the file's own class. *)
C14_OversizedRejectedWithOwnLimit ==
    /\ \A i \in DOMAIN files :
           getFileIcon(files[i]) \in {"image", "video"} =>
               files[i].size <= ClassLimit(files[i])
    /\ \A m \in errorLog :
           m.kind \in {"too-large", "exceeds"} =>
               \E file \in Candidates :
                   /\ file.name = m.name
                   /\ file.size > ClassLimit(file)
                   /\ m.limit = ClassLimit(file)

(* a file whose declared type and extension are both outside the allow-lists *)
Unsupported(file) ==
    /\ file.type \notin DOMAIN ACCEPTED_IMAGE_TYPES \cup DOMAIN ACCEPTED_VIDEO_TYPES
    /\ \A type \in DOMAIN ACCEPTED_IMAGE_TYPES :
           Extension(file.name) \notin ACCEPTED_IMAGE_TYPES[type]
    /\ \A type \in DOMAIN ACCEPTED_VIDEO_TYPES :
           Extension(file.name) \notin ACCEPTED_VIDEO_TYPES[type]

(* C15: every file whose declared type and extension are both outside the
   image and video allow-lists is rejected with the invalid-type reason when
   it is dropped, and it is never in the batch and never uploaded. *)
C15_UnsupportedRejected ==
    /\ [](/\ \A i \in DOMAIN files : ~Unsupported(files[i])
          /\ \A t \in DOMAIN tasks, file \in Candidates :
                 Unsupported(file) => tasks[t].name # file.name)
    /\ [][ \A file \in Candidates :
               (Unsupported(file) /\ OnDrop(file)) =>
                   /\ [kind |-> "invalid-type", name |-> file.name] \in errorLog'
                   /\ files' = files
                   /\ tasks' = tasks
         ]_vars

(* an unsupported file was dropped and rejected, a supported one is in the
   batch and its upload-target request was sent *)
C15_Witness ==
    /\ \E m \in errorLog : m.kind = "invalid-type"
    /\ files # <<>>
    /\ tasks # <<>>

(* C16: the validator picks a file's class from the declared type and, when
   the type is empty or unrecognized, from the extension: the size limit a
   file of the batch was held to is the limit of that class. *)
C16_ClassByTypeThenExtension ==
    \A i \in DOMAIN files :
        getFileIcon(files[i]) \in {"image", "video"} =>
            MaxSizeOf(files[i]) = ClassLimit(files[i])

(* C17: every status change of a tracked file is pending->uploading,
   uploading->success or uploading->error: no file reaches 'success' or
   'error' from another status than 'uploading', and no step changes the
   status of a file that is 'success' or 'error'. *)
C17_StatusTransitions ==
    [][ \A i \in DOMAIN files, j \in DOMAIN files' :
            ( /\ files[i].originalFile = files'[j].originalFile
              /\ files[i].status # files'[j].status )
            => <<files[i].status, files'[j].status>> \in
                   { <<"pending", "uploading">>,
                     <<"uploading", "success">>,
                     <<"uploading", "error">> }
      ]_vars

(* C18: in every reachable state a tracked file holds a cancellation handle
   (xhr) if and only if its status is 'uploading'. *)
C18_XhrIffUploading ==
    \A i \in DOMAIN files :
        (files[i].xhr # NoXhr) <=> (files[i].status = "uploading")

(* C19: in every reachable state the identifiers of the tracked files in the
   batch are pairwise distinct. *)
C19_IdsPairwiseDistinct ==
    \A i, j \in DOMAIN files : files[i].id = files[j].id => i = j

(* C20: for every tracked file at most one upload-target request and at most
   one byte transfer are ever issued: no two uploads are of the same file. *)
C20_AtMostOneUploadPerFile ==
    \A t, u \in DOMAIN tasks :
        tasks[t].originalFile = tasks[u].originalFile => t = u

(* C21: removing one file has no effect on the others: removeFile leaves the
   record of every other tracked file in the batch, unchanged, and aborts no
   transfer other than that of the removed file. *)
C21_RemoveLeavesOthers ==
    [][ \A i \in 1..MaxFiles :
            RemoveFile(i) =>
                /\ \A j \in DOMAIN files :
                       files[j].originalFile # files[i].originalFile =>
                           \E k \in DOMAIN files' : files'[k] = files[j]
                /\ \A t \in DOMAIN tasks :
                       tasks[t].originalFile # files[i].originalFile =>
                           tasks'[t].pc = tasks[t].pc
      ]_vars

(* C22: for every storage key the backend embeds in a write URL, the object
   key the client sends in the following view-URL request equals that storage
   key. *)
C22_KeyRoundTrip ==
    \A t \in DOMAIN tasks :
        tasks[t].pc \in {"view", "resolved"} =>
            \E clock \in 0..MaxClock :
                /\ tasks[t].uploadURL = BackendPOST(tasks[t].name, clock)
                /\ KeyFromUploadURL(tasks[t].uploadURL) =
                       StorageKey(tasks[t].name, clock)

(* C23: the backend chooses a unique storage key for every upload-target
   request: no two requests were answered with write URLs for the same
   storage key. *)
C23_StorageKeysUnique ==
    \A t, u \in DOMAIN tasks :
        ( /\ tasks[t].uploadURL # NoKey
          /\ tasks[t].uploadURL = tasks[u].uploadURL ) => t = u

(* C24: a preview handle is created on acceptance only for image-class files
   and never for video-class files: every file of the batch that is an image
   has a preview to be shown with, and every one that is a video has none. *)
C24_PreviewOnlyForImages ==
    \A i \in DOMAIN files :
        /\ getFileIcon(files[i]) = "image" => files[i].preview # NoPreview
        /\ getFileIcon(files[i]) = "video" => files[i].preview = NoPreview
        /\ files[i].preview # NoPreview => getFileIcon(files[i]) = "image"

(* C26: in every reachable state, if some file of a started batch has not
   reached 'success' or 'error' and has not been removed, the uploading flag
   is true and the batch-start control is disabled. *)
C26_UploadingWhileInFlight ==
    \A t \in DOMAIN tasks :
        (tasks[t].pc \in InFlight /\ RowsOf(t) # {}) =>
            isUploading /\ UploadDisabled

(* C27: a preview handle is released only when its file leaves the batch: in
   every reachable state each tracked file of the batch that has a preview
   handle has that handle unreleased. *)
C27_PreviewHeldWhileInBatch ==
    \A i \in DOMAIN files :
        files[i].preview # NoPreview => files[i].preview \notin revoked

(* an exchange, progress or outcome callback of upload t *)
Callback(t) ==
    \/ PostOk(t)
    \/ PostFail(t)
    \/ \E lc \in BOOLEAN, loaded \in 1..TotalBytes : OnProgress(t, lc, loaded)
    \/ PutOk(t)
    \/ PutFail(t)
    \/ ViewOk(t)
    \/ ViewFail(t)

(* C28: exchange, progress and outcome callbacks change only the records of
   the identifier they carry: unless the step delivers an Upload Result, which
   closes the surface and clears the batch, a callback keeps the rows of the
   batch in place, leaves every row with another identifier as it was, and
   so leaves the whole batch unchanged when its identifier is no longer
   there; and an empty batch becomes non-empty only by adding a file. *)
C28_CallbacksKeyedById ==
    [][ /\ \A t \in DOMAIN tasks :
               Callback(t) =>
                   \/ completeLog' # completeLog /\ files' = <<>>
                   \/ /\ DOMAIN files' = DOMAIN files
                      /\ \A i \in DOMAIN files :
                             /\ files'[i].originalFile = files[i].originalFile
                             /\ files[i].id # tasks[t].id => files'[i] = files[i]
        /\ (files = <<>> /\ files' # <<>>) => added' = added + 1
      ]_vars

(* the upload of a removed file has failed in its transfer while another file
   is in the batch *)
C28_Witness ==
    \E t \in DOMAIN tasks :
        /\ tasks[t].cancelled
        /\ tasks[t].pc = "failedPut"
        /\ files # <<>>
        /\ \A i \in DOMAIN files : files[i].id # tasks[t].id

(* C29: on the hosting page a failure message reported for a file of a batch
   is still displayed after that batch's Upload Result has been delivered: in
   the step in which a batch with a failed file delivers its result, the page
   shows the uploaded URLs and keeps a failure message. *)
C29_FailureShownAfterResult ==
    [][ \A b \in DOMAIN batches :
            ( /\ ~batches[b].done
              /\ batches'[b].done
              /\ batches'[b].uploadedUrls # <<>>
              /\ \E t \in DOMAIN tasks : tasks'[t].batch = b /\ tasks'[t].pc \in
                     {"failedPost", "failedPut"} )
            => /\ uploadedFileUrls' # <<>>
               /\ error' # NoError
      ]_vars

(* C25: in the Uppy uploader the Upload Result of a batch is never emitted
   while a view-URL exchange of a transferred file of that batch is still
   outstanding, and when it is emitted it holds exactly the view URLs resolved
   for the files of that batch. *)
C25_UppyResultOfOwnBatch ==
    \A k \in DOMAIN uppy.results :
        /\ uppy.results[k].outstanding = {}
        /\ Range(uppy.results[k].urls) =
               {UppyViewUrl(id) : id \in uppy.results[k].resolved}

====
